---- MODULE Spec2Model ----
(***************************************************************************)
(* Model of the connectivity layer of homebridge-digitalSTROM:             *)
(*   - the legacy controller client (session token, login, request retry), *)
(*   - the event channel (WebSocketClient: connect, reconnect, heartbeat,  *)
(*     listeners, sendWebSocketCommand).                                    *)
(* Each component has its own specification; the variables of the other    *)
(* component stay unchanged in it.                                          *)
(***************************************************************************)
EXTENDS Integers, Naturals, Sequences, FiniteSets, Bags, TLC

(***************************************************************************)
(* Bounds of the model                                                      *)
(***************************************************************************)
\* caller requests of the legacy client that are in progress at one time
MaxCalls == 1
\* wire transmissions of one caller request after which the server stops
\* answering with the authentication-failed rejection
MaxWire == 3
\* distinct session tokens the server hands out
NumTokens == 2
\* clock ticks of the legacy model
MaxTicks == 2

\* client/connection objects of the event channel that exist at one time
MaxSlots == 2
\* reconnect timers of the event channel that are pending at one time
MaxTimers == 1
\* sendWebSocketCommand calls made by callers of the event channel
MaxSends == 1

\* message listeners registered with the event channel at one time
MaxListeners == 2
\* changes of the controller's state in one behaviour
MaxChanges == 1
\* status fetches in flight at a time
MaxCycles == 1
\* hex pairs of a certificate digest (32 in the program)
FpPairs == 2
\* authenticated requests counted after start-up
MaxRequests == 2
\* concurrent calls of the controller client
MaxCmds == 2

(***************************************************************************)
(* Program constants                                                        *)
(***************************************************************************)
\* WebSocketClient: maxRetries, BASE_RETRY_DELAY, MAX_RETRY_DELAY
maxRetries == 10
BASE_RETRY_DELAY == 1000
MAX_RETRY_DELAY == 30000
\* WebSocketClient: HEARTBEAT_INTERVAL, PING_TIMEOUT; the closing handshake
\* of the websocket library is bounded by the latter, too (closeTimeout)
HEARTBEAT_INTERVAL == 120000
PING_TIMEOUT == 5000
\* the delay of the reconnect timer of the connection error handler
ERROR_RETRY_DELAY == 1000
\* Session.setSessionTimeout: expiresOn = now + 170000
SessionTimeoutMs == 170000

\* this._sessionToken = '' ; expiresOn is declared but not initialised
NoToken == 0
Undefined == -1

Calls == 1..MaxCalls
Tokens == 1..NumTokens
\* the clock advances by one millisecond or by a whole session lifetime
TickSteps == {1, SessionTimeoutMs}

\* answers of the server to a legacy request
Answers == {"ok", "authFailed", "otherError", "networkError"}

VARIABLES
  now,          \* Session.getCurrentEpoch()
  sessionToken, \* Session._sessionToken
  expiresOn,    \* Session.expiresOn
  ticks,        \* number of clock steps taken
  req           \* per caller request: position in request(), counters

legacyVars == <<now, sessionToken, expiresOn, ticks, req>>

Sends == 1..MaxSends
\* no callback
Null == 0

VARIABLES
  isConnecting,      \* WebSocketClient.isConnecting
  retryCount,        \* WebSocketClient.retryCount
  heartbeatInterval, \* WebSocketClient.heartbeatInterval: timer active or null
  intervals,         \* number of the setInterval timers that are active
  objs,              \* the client/connection objects, the callback each has
                     \* captured, and which of them is WebSocketClient.connection
  timers,            \* number of pending setTimeout(() => this.connect(), ...)
  timed,             \* whether the behaviours are restricted to some that the
                     \* delays allow (see Time below) or the events come in
                     \* any order
  ping,              \* whether the heartbeat callback awaits ping(), and what
                     \* the ping that ended in the last step came to ("none",
                     \* "pong", "timeout")
  send,              \* the sendWebSocketCommand calls and their promises
  lastDelay          \* delay of the last failure since the last successful connect

wsVars == <<isConnecting, retryCount, heartbeatInterval, intervals, objs,
            timers, timed,
            ping, send, lastDelay>>

VARIABLES
  listeners,   \* WebSocketClient.listeners
  rx,          \* alternates with every inbound frame
  delivered,   \* ids of the listeners called for the last inbound frame
  lastMsg,     \* its type and the { command, payload } passed to them
  errorLogged  \* log.error was called for the last inbound frame

lsVars == <<listeners, rx, delivered, lastMsg, errorLogged>>

VARIABLES
  phase,       \* "restoring" (before didFinishLaunching), "discovering"
               \* (discoverDevices awaits the controller), "running"
  accessories, \* DigitalStromPlatform.accessories: the restored accessories
               \* in insertion order, each named by its device
  handlerMap,  \* DigitalStromPlatform.handlerMap: the handler of the
               \* accessory of each device, or NoHandler
  ctrl,        \* controller: the output of each device
  cond,        \* controller: what it reports of each device ("normal",
               \* "maintenance": no outputs, "removed": no entry)
  changes,     \* number of changes of the controller's state so far
  pending,     \* change notifications sent and not yet delivered
  requested,   \* status requests the controller has not answered yet
  answered,    \* the answers on their way to the plugin
  heard,       \* the command STATUS_LISTENER was called with in the last step
  fanout       \* what updateAccessories did when it resumed in the last step

syVars == <<phase, accessories, handlerMap, ctrl, cond, changes, pending, requested, answered, heard, fanout>>

VARIABLES
  config,      \* options.fingerprint, options.disableCertificateValidation
  peerCert,    \* SHA-256 digest of the certificate the server presents
  boot,        \* position in the didFinishLaunching handler
  httpsAgent,  \* axios.defaults.httpsAgent: "insecure" or "pinned"
  apiRequests, \* authenticated requests issued
  wsCreated,   \* new webSocketClient(...) was executed
  certLog      \* what the validation of the certificate logged

cvVars == <<config, peerCert, boot, httpsAgent, apiRequests, wsCreated,
            certLog>>

VARIABLES
  cmd          \* per call of the controller client: position and outcome

ccVars == <<cmd>>

VARIABLES
  fb,          \* the function block discoverDevices is looking at
  cached,      \* an accessory of the device was restored from the cache
  found,       \* what discoverDevices made of it
  pass         \* a pass of discoverDevices() as a whole

clVars == <<fb, cached, found, pass>>

VARIABLES
  shutdown     \* the 'shutdown' event of Homebridge was handled

sdVars == <<shutdown>>

(***************************************************************************)
(* Session                                                                  *)
(***************************************************************************)
hasSessionToken(tok) == tok # NoToken

\* a token that expires as soon as the clock reaches expiresOn
isSessionTokenExpired_AtExpiry(exp, t) == exp # Undefined /\ exp <= t

\* undefined < number is false in JavaScript
isSessionTokenExpired(exp, t) == exp # Undefined /\ exp < t

hasValidSessionToken(tok, exp, t) ==
  hasSessionToken(tok) /\ ~isSessionTokenExpired(exp, t)

setSessionTimeout(t) == t + SessionTimeoutMs

(***************************************************************************)
(* Legacy client: one record per caller request                             *)
(*   pc      "idle"       not yet issued                                    *)
(*           "preLogin"   interceptor awaits getSessionToken()              *)
(*           "wire"       the request itself is awaited                     *)
(*           "reLogin"    request() awaits getSessionToken() after the      *)
(*                        authentication-failed rejection                   *)
(*           "done"       request() has returned                            *)
(*   wires   transmissions of the request itself                            *)
(*   relogins login calls made after an authentication-failed rejection     *)
(*   tok     token carried by the transmission in flight                    *)
(*   login   outcome of the last login call made for the request            *)
(*   result  "none", "ok" (response.data returned), "failed" (undefined)    *)
(***************************************************************************)
InitReq ==
  [pc |-> "idle", wires |-> 0, relogins |-> 0, tok |-> NoToken,
   login |-> "none", result |-> "none"]

\* an interceptor that puts the request on the wire without the validity check
Interceptor_NoCheck(r, tok, exp) ==
  [r EXCEPT !.pc = "wire", !.wires = @ + 1, !.tok = tok]

\* axiosInstance.interceptors.request for a non-login url, with the session
\* (tok, exp) as it is when the interceptor runs: either the request goes on
\* the wire with the session token, or getSessionToken() is awaited first
Interceptor(r, tok, exp) ==
  IF hasValidSessionToken(tok, exp, now)
    THEN [r EXCEPT !.pc = "wire", !.wires = @ + 1, !.tok = tok]
    ELSE [r EXCEPT !.pc = "preLogin"]

\* the interceptor after its awaited getSessionToken() has stored the token
InterceptorResume(r, tok) ==
  [r EXCEPT !.pc = "wire", !.wires = @ + 1, !.tok = tok]

\* request(uri) is called by turnOnDevice / turnOffDevice / setOutputChannelValue
Request(c) ==
  /\ req[c].pc = "idle"
  /\ req' = [req EXCEPT ![c] = Interceptor(req[c], sessionToken, expiresOn)]
  /\ UNCHANGED <<now, sessionToken, expiresOn, ticks>>
  /\ UNCHANGED <<wsVars, lsVars, syVars, cvVars, ccVars, clVars, sdVars>>

\* answer to the login call awaited by the interceptor
PreLoginResponse(c) ==
  /\ req[c].pc = "preLogin"
  /\ \E a \in Answers :
       IF a = "ok"
         THEN \E t \in Tokens :
                /\ sessionToken' = t
                /\ expiresOn' = setSessionTimeout(now)
                /\ req' = [req EXCEPT ![c] =
                             InterceptorResume([req[c] EXCEPT !.login = "ok"], t)]
         ELSE \* request(login) returns undefined, json.result throws in
              \* getSessionToken, the interceptor rejects, request() catches
              /\ req' = [req EXCEPT ![c] =
                           [@ EXCEPT !.pc = "done", !.result = "failed",
                                     !.login = "failed"]]
              /\ UNCHANGED <<sessionToken, expiresOn>>
  /\ UNCHANGED <<now, ticks>>
  /\ UNCHANGED <<wsVars, lsVars, syVars, cvVars, ccVars, clVars, sdVars>>

\* the retry of request(): "return await this.request(uri...)"; the bound
\* MaxWire caps the recursion of the model
RetryAllowed(r) == r.wires < MaxWire

\* answer to the request itself
Response(c) ==
  /\ req[c].pc = "wire"
  /\ \E a \in Answers :
       CASE a = "ok" ->
              req' = [req EXCEPT ![c] =
                        [@ EXCEPT !.pc = "done", !.result = "ok", !.tok = NoToken]]
         [] a = "authFailed" ->
              /\ RetryAllowed(req[c])
              /\ req' = [req EXCEPT ![c] =
                           [@ EXCEPT !.pc = "reLogin", !.relogins = @ + 1,
                                     !.tok = NoToken]]
         [] OTHER ->
              req' = [req EXCEPT ![c] =
                        [@ EXCEPT !.pc = "done", !.result = "failed", !.tok = NoToken]]
  /\ UNCHANGED <<now, sessionToken, expiresOn, ticks>>
  /\ UNCHANGED <<wsVars, lsVars, syVars, cvVars, ccVars, clVars, sdVars>>

\* answer to the login call made after the authentication-failed rejection;
\* on success request() calls itself with the same uri
ReLoginResponse(c) ==
  /\ req[c].pc = "reLogin"
  /\ \E a \in Answers :
       IF a = "ok"
         THEN \E t \in Tokens :
                /\ sessionToken' = t
                /\ expiresOn' = setSessionTimeout(now)
                /\ req' = [req EXCEPT ![c] =
                             Interceptor([req[c] EXCEPT !.login = "ok"], t,
                                         setSessionTimeout(now))]
         ELSE /\ req' = [req EXCEPT ![c] =
                           [@ EXCEPT !.pc = "done", !.result = "failed",
                                     !.login = "failed"]]
              /\ UNCHANGED <<sessionToken, expiresOn>>
  /\ UNCHANGED <<now, ticks>>
  /\ UNCHANGED <<wsVars, lsVars, syVars, cvVars, ccVars, clVars, sdVars>>

\* request() has returned to its caller
Return(c) ==
  /\ req[c].pc = "done"
  /\ req' = [req EXCEPT ![c] = InitReq]
  /\ UNCHANGED <<now, sessionToken, expiresOn, ticks>>
  /\ UNCHANGED <<wsVars, lsVars, syVars, cvVars, ccVars, clVars, sdVars>>

\* time passes
Tick ==
  /\ ticks < MaxTicks
  /\ \E d \in TickSteps : now' = now + d
  /\ ticks' = ticks + 1
  /\ UNCHANGED <<sessionToken, expiresOn, req>>
  /\ UNCHANGED <<wsVars, lsVars, syVars, cvVars, ccVars, clVars, sdVars>>

LegacyInit ==
  /\ now = 0
  /\ sessionToken = NoToken
  /\ expiresOn = Undefined
  /\ ticks = 0
  /\ req = [c \in Calls |-> InitReq]

LegacyNext ==
  \/ \E c \in Calls : Request(c)
  \/ \E c \in Calls : PreLoginResponse(c)
  \/ \E c \in Calls : Response(c)
  \/ \E c \in Calls : ReLoginResponse(c)
  \/ \E c \in Calls : Return(c)
  \/ Tick


(***************************************************************************)
(* Event channel (WebSocketClient)                                          *)
(*                                                                          *)
(* objs is the bag of the WsClient objects together with the connection     *)
(* each may produce; objects that are in the same condition are not told    *)
(* apart.  One object is                                                    *)
(*   st      "connecting"  client.connect() called, outcome pending         *)
(*           "open"        'connect' emitted, handlers attached             *)
(*           "closing"     connection.close() called, 'close' event pending *)
(*           "errored"     'error' emitted; the library destroys the socket *)
(*                         and emits 'close' next, before any other event   *)
(*   cb      the callback passed to connect(callback): the send call whose  *)
(*           implicit connect created the client, or Null                   *)
(*   cur     this.connection refers to the object                           *)
(*   pinged  the pending ping() listens for the pong of the object          *)
(*   first   the first frame written to the connection by connection.send:  *)
(*           "none", "handshake" or "command" (a caller's command)          *)
(* send[s] is one caller's sendWebSocketCommand call:                       *)
(*   st        "unused", "pending", "resolved", "rejected" (its promise)    *)
(*   connects  calls of connect(callback) made for it                       *)
(*   writes    calls of connection.send made for it                         *)
(*   inflight  connection.send calls whose completion is outstanding        *)
(***************************************************************************)
NewClient(cb) ==
  [st |-> "connecting", cb |-> cb, cur |-> FALSE, pinged |-> FALSE,
   first |-> "none"]

InitSend == [st |-> "unused", connects |-> 0, writes |-> 0, inflight |-> 0]

\* the channel state as one value, for the handlers below; what the last
\* ping came to is known in the step that ends it only
Chan ==
  [isConnecting |-> isConnecting, retryCount |-> retryCount,
   heartbeatInterval |-> heartbeatInterval, intervals |-> intervals,
   objs |-> objs, timers |-> timers,
   ping |-> [ping EXCEPT !.last = "none"], send |-> send,
   lastDelay |-> lastDelay, ok |-> TRUE]

\* the step ends in channel state S; S.ok is FALSE when it needs more objects
\* or timers than the bounds of the model allow
CommitChan(S) ==
  /\ S.ok
  /\ isConnecting' = S.isConnecting
  /\ retryCount' = S.retryCount
  /\ heartbeatInterval' = S.heartbeatInterval
  /\ intervals' = S.intervals
  /\ objs' = S.objs
  /\ timers' = S.timers
  /\ ping' = S.ping
  /\ send' = S.send
  /\ lastDelay' = S.lastDelay
  /\ timed' = timed

\* ... in a step of the event channel alone
Commit(S) ==
  /\ CommitChan(S)
  /\ UNCHANGED <<legacyVars, lsVars, syVars, cvVars, ccVars, clVars, sdVars>>

\* the objects of the bag B that satisfy Test
Those(B, Test(_)) ==
  LET D == {o \in DOMAIN B : Test(o)} IN [o \in D |-> B[o]]

\* one object in condition o comes to condition n
replace(S, o, n) ==
  [S EXCEPT !.objs = (@ (-) SetToBag({o})) (+) SetToBag({n})]

\* every object of the bag B changed by Change
EachObj(B, Change(_)) ==
  LET copies == UNION {{<<o, k>> : k \in 1..B[o]} : o \in DOMAIN B}
  IN [n \in {Change(o) : o \in DOMAIN B} |->
        Cardinality({p \in copies : Change(p[1]) = n})]

\* this.connection, as the set of the objects it refers to (one or none)
connection(S) == {o \in DOMAIN S.objs : o.cur}

\* this.connection = null
clearConnection(S) ==
  [S EXCEPT !.objs = EachObj(@, LAMBDA o : [o EXCEPT !.cur = FALSE])]

Pow2(n) == IF n <= 0 THEN 1 ELSE 2 ^ n

\* promise settlement: only a pending promise changes.  The callback of a
\* settled call that established connections still hold only rejects, which
\* does nothing any more, so these objects hold no callback from then on.
settle(S, s, how) ==
  IF s # Null /\ S.send[s].st = "pending"
    THEN [S EXCEPT !.send[s].st = how,
                   !.objs = EachObj(@, LAMBDA o :
                              IF o.cb = s /\ o.st # "connecting"
                                THEN [o EXCEPT !.cb = Null] ELSE o)]
    ELSE S

reject(S, s) == settle(S, s, "rejected")

resolve(S, s) == settle(S, s, "resolved")

\* connect(callback)
connect(S, cb) ==
  IF S.isConnecting THEN S
  ELSE IF S.retryCount >= maxRetries THEN reject(S, cb)
  ELSE IF BagCardinality(S.objs) >= MaxSlots THEN [S EXCEPT !.ok = FALSE]
  ELSE [S EXCEPT !.isConnecting = TRUE,
                 !.objs = @ (+) SetToBag({NewClient(cb)})]

\* this.connection?.close(); close() of the websocket library starts the
\* closing handshake of a connected connection and does nothing otherwise
closeConnection(S) ==
  IF \E o \in connection(S) : o.st = "open"
    THEN LET o == CHOOSE o \in connection(S) : o.st = "open"
         IN replace(S, o, [o EXCEPT !.st = "closing"])
    ELSE S

\* this.connection.send(frame): the frame goes out on the connection
connectionSend(S, frame) ==
  LET o == CHOOSE o \in connection(S) : TRUE
  IN replace(S, o, [o EXCEPT !.first = IF @ = "none" THEN frame ELSE @])

\* the body of the promise of sendWebSocketCommand for call s (also the
\* repeated call made by the callback after a successful implicit connect)
sendWebSocketCommand(S, s) ==
  IF connection(S) = {}
    THEN connect([S EXCEPT !.send[s].connects = @ + 1], s)
    ELSE connectionSend([S EXCEPT !.send[s].writes = @ + 1,
                                  !.send[s].inflight = @ + 1], "command")

\* a callback that repeats the send whatever connect() reports
callback_RetryAlways(S, s, err) ==
  IF s = Null THEN S ELSE sendWebSocketCommand(S, s)

\* the callback given to connect() by sendWebSocketCommand
callback(S, s, err) ==
  IF s = Null THEN S
  ELSE IF err THEN reject(S, s)
  ELSE sendWebSocketCommand(S, s)

\* this.heartbeatInterval = null without clearInterval
clearHeartbeat_KeepTimer(S) == [S EXCEPT !.heartbeatInterval = FALSE]

\* if (this.heartbeatInterval) { clearInterval(this.heartbeatInterval);
\* this.heartbeatInterval = null }
clearHeartbeat(S) ==
  [S EXCEPT !.heartbeatInterval = FALSE,
            !.intervals = IF S.heartbeatInterval THEN @ - 1 ELSE @]

\* backoff without the ceiling
retryDelay_NoCeiling(n) == BASE_RETRY_DELAY * Pow2(n - 1)

\* exponential backoff with max delay
retryDelay(n) ==
  LET d == BASE_RETRY_DELAY * Pow2(n - 1)
  IN IF d < MAX_RETRY_DELAY THEN d ELSE MAX_RETRY_DELAY

\* a failure handler that sets no timer
setReconnectTimer_None(S, delay) == S

\* setTimeout(() => this.connect(), delay)
setReconnectTimer(S, delay) ==
  IF S.timers >= MaxTimers THEN [S EXCEPT !.ok = FALSE]
  ELSE [S EXCEPT !.timers = @ + 1]

\* the wait of ping() ends, by the pong or by the timeout
endPing(S, how) ==
  [S EXCEPT !.ping = [st |-> "idle", last |-> how],
            !.objs = EachObj(@, LAMBDA o : [o EXCEPT !.pinged = FALSE])]

(***************************************************************************)
(* Time.  The model has no clock.  In every specification the 'close' event *)
(* that the library emits after an 'error' event comes before any other     *)
(* event (Quiet), and a heartbeat tick finds no earlier ping pending        *)
(* (HEARTBEAT_INTERVAL is longer than PING_TIMEOUT).  Apart from that the   *)
(* events come in any order when timed is FALSE.  When timed is TRUE the    *)
(* behaviours are restricted to some that the delays allow: the wait for a  *)
(* pong and the wait for the 'close' event of a connection closed by        *)
(* close() are short (at most PING_TIMEOUT), no reconnect timer fires       *)
(* during a short wait, and no heartbeat tick comes while a reconnect timer *)
(* or a short wait is pending, so that the timers pending in a short wait   *)
(* are those set in it, which can all be due after its end.                 *)
(***************************************************************************)
Quiet == \A o \in DOMAIN objs : o.st # "errored"

ShortWait == ping.st = "waiting" \/ \E o \in DOMAIN objs : o.st = "closing"

\* sendWebSocketCommand('{"protocol":"json","version":"1"}') of the 'connect'
\* handler; nothing consumes its promise
handshake(S) == connectionSend(S, "handshake")

\* this.heartbeatInterval = setInterval(...)
setHeartbeat(S) ==
  [S EXCEPT !.heartbeatInterval = TRUE, !.intervals = @ + 1]

\* a 'connect' handler that runs the callback before it sends the handshake
activate_CallbackFirst(S, cb) ==
  setHeartbeat(handshake(callback(S, cb, FALSE)))

\* the end of the 'connect' handler: the handshake command goes out on the
\* new connection, then the heartbeat interval is set up, then the callback
\* runs
activate(S, cb) ==
  callback(setHeartbeat(handshake(S)), cb, FALSE)

\* client.on('connect')
ConnectOk ==
  \E o \in DOMAIN objs :
    /\ Quiet
    /\ o.st = "connecting"
    /\ LET S1 == replace(clearConnection(Chan), o,
                         [o EXCEPT !.st = "open", !.cur = TRUE])
           S2 == [S1 EXCEPT !.isConnecting = FALSE, !.retryCount = 0,
                            !.lastDelay = 0]
       IN Commit(activate(clearHeartbeat(S2), o.cb))

\* client.on('connectFailed')
ConnectFailed ==
  \E o \in DOMAIN objs :
    /\ Quiet
    /\ o.st = "connecting"
    /\ LET S1 == callback([Chan EXCEPT !.isConnecting = FALSE,
                                       !.objs = @ (-) SetToBag({o})],
                          o.cb, TRUE)
           n == S1.retryCount + 1
           S2 == [S1 EXCEPT !.retryCount = n, !.lastDelay = retryDelay(n)]
       IN Commit(setReconnectTimer(S2, retryDelay(n)))

\* connection.on('error'); the library emits 'close' after 'error'
ConnectionError ==
  \E o \in DOMAIN objs :
    /\ Quiet
    /\ o.st \in {"open", "closing"}
    /\ LET S1 == callback(replace(Chan, o, [o EXCEPT !.st = "errored"]),
                          o.cb, TRUE)
           S2 == clearConnection(closeConnection(S1))
       IN Commit(setReconnectTimer(S2, ERROR_RETRY_DELAY))

\* connection.on('close')
ConnectionClose ==
  \E o \in DOMAIN objs :
    /\ o.st \in {"open", "closing", "errored"}
    /\ Quiet \/ o.st = "errored"
    /\ LET S1 == clearConnection(clearHeartbeat(
                   [Chan EXCEPT !.isConnecting = FALSE,
                                !.objs = @ (-) SetToBag({o})]))
           S2 == callback(S1, o.cb, TRUE)
       IN Commit(connect(S2, Null))

\* a reconnect timer fires
ReconnectTimer ==
  /\ Quiet
  /\ timed => ~ShortWait
  /\ timers > 0
  /\ Commit(connect([Chan EXCEPT !.timers = @ - 1], Null))

\* the catch branch of the heartbeat callback
heartbeatFailed(S) == connect(closeConnection(S), Null)

\* the heartbeat interval fires: ping() either rejects at once (no connection)
\* or sends a ping and waits for the pong or the timeout
HeartbeatTick ==
  /\ Quiet
  /\ heartbeatInterval
  /\ ping.st = "idle"
  /\ timed => (timers = 0 /\ ~ShortWait)
  /\ IF connection(Chan) = {}
       THEN Commit(heartbeatFailed(Chan))
       ELSE LET o == CHOOSE o \in connection(Chan) : TRUE
            IN Commit(replace([Chan EXCEPT !.ping.st = "waiting"],
                              o, [o EXCEPT !.pinged = TRUE]))

\* the pong of the pinged connection arrives in time
Pong ==
  /\ Quiet
  /\ ping.st = "waiting"
  /\ \E o \in DOMAIN objs : o.pinged /\ o.st = "open"
  /\ Commit(endPing(Chan, "pong"))

\* PING_TIMEOUT passes without a pong
PingTimeout ==
  /\ Quiet
  /\ ping.st = "waiting"
  /\ Commit(heartbeatFailed(endPing(Chan, "timeout")))

\* a caller calls sendWebSocketCommand; the calls are numbered in the order
\* in which they are made
SendCall(s) ==
  /\ Quiet
  /\ send[s].st = "unused"
  /\ \A r \in 1..(s - 1) : send[r].st # "unused"
  /\ Commit(sendWebSocketCommand([Chan EXCEPT !.send[s].st = "pending"], s))

\* the completion callback of connection.send
SendDone(s) ==
  /\ Quiet
  /\ send[s].inflight > 0
  /\ \E err \in BOOLEAN :
       LET S1 == [Chan EXCEPT !.send[s].inflight = @ - 1]
       IN Commit(IF err THEN reject(S1, s) ELSE resolve(S1, s))

\* the state after the constructor, which calls connect()
WsInit ==
  /\ isConnecting = TRUE
  /\ retryCount = 0
  /\ heartbeatInterval = FALSE
  /\ intervals = 0
  /\ objs = SetToBag({NewClient(Null)})
  /\ timers = 0
  /\ ping = [st |-> "idle", last |-> "none"]
  /\ send = [s \in Sends |-> InitSend]
  /\ lastDelay = 0

WsNext ==
  \/ ConnectOk
  \/ ConnectFailed
  \/ ConnectionError
  \/ ConnectionClose
  \/ ReconnectTimer
  \/ HeartbeatTick
  \/ Pong
  \/ PingTimeout
  \/ \E s \in Sends : SendCall(s)
  \/ \E s \in Sends : SendDone(s)

(***************************************************************************)
(* Event channel: listeners and inbound frames                              *)
(*                                                                          *)
(* A frame is its type and, for a text frame, its characters; RS stands     *)
(* for the control character \u001e.  A listener is its id and whether its  *)
(* callback throws.                                                         *)
(***************************************************************************)
RS == "RS"
SEMI == ";"

\* text of the frames the server sends in the model
Texts ==
  { <<RS, "a", SEMI, "b">>, <<"a", SEMI, "b">>, <<"a">>,
    <<RS, "a", SEMI, "b", SEMI, "c">>, <<>> }

Frames ==
  [type : {"utf8"}, data : Texts] \cup [type : {"binary"}, data : {<<>>}]

ListenerIds == 1..MaxListeners


\* String.prototype.replace(ch, ''): removes the first occurrence only
RECURSIVE replaceFirst(_, _)
replaceFirst(msg, ch) ==
  IF msg = <<>> THEN <<>>
  ELSE IF Head(msg) = ch THEN Tail(msg)
  ELSE <<Head(msg)>> \o replaceFirst(Tail(msg), ch)

\* String.prototype.split(sep): the pieces between the separators
RECURSIVE split(_, _)
split(msg, sep) ==
  IF msg = <<>> THEN << <<>> >>
  ELSE LET rest == split(Tail(msg), sep)
       IN IF Head(msg) = sep THEN << <<>> >> \o rest
          ELSE << <<Head(msg)>> \o rest[1] >> \o Tail(rest)

\* const [command, payload] = msg.split(';')
parse(msg) ==
  LET parts == split(replaceFirst(msg, RS), SEMI)
  IN [type |-> "utf8", command |-> parts[1],
      payload |-> IF Len(parts) >= 2 THEN parts[2] ELSE <<"undefined">>]

\* this.listeners.forEach((listener) => listener.callback(...)): an exception
\* of a callback leaves forEach
RECURSIVE forEach(_)
forEach(ls) ==
  IF ls = <<>> THEN [called |-> <<>>, threw |-> FALSE]
  ELSE IF Head(ls).throws THEN [called |-> <<Head(ls).id>>, threw |-> TRUE]
  ELSE LET rest == forEach(Tail(ls))
       IN [called |-> <<Head(ls).id>> \o rest.called, threw |-> rest.threw]

\* addMessageListener(listenerId, callback)
addMessageListener(id, throws) ==
  /\ Len(listeners) < MaxListeners
  /\ listeners' = Append(listeners, [id |-> id, throws |-> throws])
  /\ UNCHANGED <<rx, delivered, lastMsg, errorLogged>>
  /\ UNCHANGED <<legacyVars, wsVars, syVars, cvVars, ccVars, clVars, sdVars>>

\* removeMessageListener(listenerId)
removeMessageListener(id) ==
  /\ listeners' = SelectSeq(listeners, LAMBDA l : l.id # id)
  /\ UNCHANGED <<rx, delivered, lastMsg, errorLogged>>
  /\ UNCHANGED <<legacyVars, wsVars, syVars, cvVars, ccVars, clVars, sdVars>>

\* a 'message' handler that passes a binary frame on to the listeners
OnMessage_DeliverBinary(frame) ==
  /\ rx' = 1 - rx
  /\ LET r == forEach(listeners)
     IN /\ delivered' = r.called
        /\ lastMsg' = IF frame.type # "utf8"
                        THEN [type |-> "binary", command |-> <<>>,
                              payload |-> <<>>]
                        ELSE parse(frame.data)
        /\ errorLogged' = (r.threw \/ frame.type # "utf8")
  /\ UNCHANGED listeners
  /\ UNCHANGED <<legacyVars, wsVars, syVars, cvVars, ccVars, clVars, sdVars>>

\* connection.on('message') and handleMessage
OnMessage(frame) ==
  /\ rx' = 1 - rx
  /\ IF frame.type # "utf8"
       THEN /\ delivered' = <<>>
            /\ lastMsg' = [type |-> "binary", command |-> <<>>, payload |-> <<>>]
            /\ errorLogged' = TRUE
       ELSE LET r == forEach(listeners)
            IN /\ delivered' = r.called
               /\ lastMsg' = parse(frame.data)
               /\ errorLogged' = r.threw
  /\ UNCHANGED listeners
  /\ UNCHANGED <<legacyVars, wsVars, syVars, cvVars, ccVars, clVars, sdVars>>

\* the frames and the listeners while connections are established and closed
InNext ==
  \/ ConnectOk
  \/ ConnectionClose
  \/ \E id \in ListenerIds, throws \in BOOLEAN : addMessageListener(id, throws)
  \/ \E id \in ListenerIds : removeMessageListener(id)
  \/ \E frame \in Frames : OnMessage(frame)

LsInit ==
  /\ listeners = <<>>
  /\ rx = 0
  /\ delivered = <<>>
  /\ lastMsg = [type |-> "none", command |-> <<>>, payload |-> <<>>]
  /\ errorLogged = FALSE

LsNext ==
  \/ \E id \in ListenerIds, throws \in BOOLEAN : addMessageListener(id, throws)
  \/ \E id \in ListenerIds : removeMessageListener(id)
  \/ \E frame \in Frames : OnMessage(frame)

(***************************************************************************)
(* Shutdown of the plugin                                                   *)
(***************************************************************************)
\* the id 'STATUS_LISTENER' among the listener ids of the model
STATUS_LISTENER_ID == 1

\* WebSocketClient.close()
close(S) == clearConnection(closeConnection(clearHeartbeat(S)))

\* DigitalStromPlatform.pluginShutdown(), the handler of the 'shutdown'
\* event: removeMessageListener('STATUS_LISTENER') and close()
pluginShutdown ==
  /\ Quiet
  /\ ~shutdown
  /\ shutdown' = TRUE
  /\ listeners' = SelectSeq(listeners, LAMBDA l : l.id # STATUS_LISTENER_ID)
  /\ CommitChan(close(Chan))
  /\ UNCHANGED <<rx, delivered, lastMsg, errorLogged>>
  /\ UNCHANGED <<legacyVars, syVars, cvVars, ccVars, clVars>>

\* the listeners after the didFinishLaunching handler has registered
\* STATUS_LISTENER
LsRegistered ==
  /\ listeners = <<[id |-> STATUS_LISTENER_ID, throws |-> FALSE]>>
  /\ rx = 0
  /\ delivered = <<>>
  /\ lastMsg = [type |-> "none", command |-> <<>>, payload |-> <<>>]
  /\ errorLogged = FALSE

SdNext ==
  \/ WsNext
  \/ \E frame \in Frames : OnMessage(frame)
  \/ pluginShutdown

(***************************************************************************)
(* Device discovery: what becomes of one function block of the apartment   *)
(*                                                                          *)
(* A name is the sequence of its characters.  Absent stands for a member    *)
(* that the object does not have.                                           *)
(***************************************************************************)
Absent == <<"absent">>

GE == <<"G", "E">>
SW == <<"S", "W">>
GR == <<"G", "R">>
SW_KL200 == <<"S", "W", "-", "K", "L", "2", "0", "0">>

\* device.attributes.technicalName
TechnicalNames ==
  { Absent, <<>>, <<"G">>, GE, GE \o <<"-", "K", "M">>,
    SW_KL200, SW_KL200 \o <<"X">>, SW \o <<"-", "T", "K", "M">>,
    GR \o <<"-", "K", "L">>, <<"g", "e", "-", "K", "M">>,
    <<"B", "L", "-", "K", "M">> }

\* device.attributes.outputs: the ids of the outputs
OutputLists ==
  { Absent, <<>>, <<"brightness">>, <<"shadePositionOutside">>,
    <<"brightness", "shadePositionOutside">> }

\* device.attributes.name: null, not a member, or a string
Names == {"null", "undefined", "set"}

\* FunctionBlock; attributes is whether the object has the member
FunctionBlocks ==
  [attributes : BOOLEAN, name : Names, technicalName : TechnicalNames,
   outputs : OutputLists]

\* String.prototype.startsWith
startsWith(str, prefix) ==
  Len(str) >= Len(prefix) /\ SubSeq(str, 1, Len(prefix)) = prefix

\* device.attributes?.outputs
outputsOf(device) == IF device.attributes THEN device.outputs ELSE Absent

\* DEVICE_TYPE_CONFIG.light.prefixes
lightPrefixes == {GE, SW}

\* DEVICE_TYPE_CONFIG.light.validate without the test of SW-KL200
lightValidate_AnySW(device, technicalName) ==
  outputsOf(device) # Absent

\* DEVICE_TYPE_CONFIG.light.validate
lightValidate(device, technicalName) ==
  IF startsWith(technicalName, SW) /\ technicalName # SW_KL200
    THEN FALSE
    ELSE outputsOf(device) # Absent

\* DEVICE_TYPE_CONFIG.shade.prefixes
shadePrefixes == {GR}

\* DEVICE_TYPE_CONFIG.shade.validate
shadeValidate(device, technicalName) ==
  LET outputs == outputsOf(device)
  IN /\ outputs # Absent
     /\ \E i \in 1..Len(outputs) : outputs[i] = "shadePositionOutside"

\* DigitalStromPlatform.getDssDeviceType(device)
getDssDeviceType(device) ==
  LET technicalName ==
        IF device.attributes THEN device.technicalName ELSE Absent
  IN IF technicalName = Absent \/ technicalName = <<>> \/ Len(technicalName) < 2
       THEN "NotSupported"
     ELSE LET prefix == SubSeq(technicalName, 1, 2)
          IN IF prefix \in lightPrefixes /\ lightValidate(device, technicalName)
               THEN "light"
             ELSE IF prefix \in shadePrefixes
                       /\ shadeValidate(device, technicalName)
               THEN "shade"
             ELSE "NotSupported"

NotFound == [handler |-> "pending", registered |-> FALSE]

\* the body of the loop of discoverDevices for one device, and the removal
\* of the accessories that were not discovered: the handler that is
\* created, and whether the accessory is registered with Homebridge
\* afterwards
discoverDevice(device, existingAccessory) ==
  LET dssDeviceType == getDssDeviceType(device)
  IN IF ~device.attributes \/ device.name = "null"
       THEN [handler |-> "none", registered |-> FALSE]
     ELSE IF dssDeviceType = "NotSupported"
       THEN [handler |-> "none", registered |-> FALSE]
     ELSE [handler |-> dssDeviceType, registered |-> TRUE]

\* discoverDevices() comes to the function block
Discover ==
  /\ found = NotFound
  /\ found' = discoverDevice(fb, cached)
  /\ UNCHANGED <<fb, cached, pass>>
  /\ UNCHANGED <<legacyVars, wsVars, lsVars, syVars, cvVars, ccVars, sdVars>>

\* the devices of the apartment
Devs == {"lamp", "blind"}

\* a pass of discoverDevices():
\*   st            "idle", "testing" (testConnection() awaited), "fetching"
\*                 (getApartment() awaited), "done"
\*   outcome       "none", "testFailed", "fetchFailed", "ok"
\*   restored      devices of this.accessories (restored from the cache)
\*   devices       devices among the function blocks of the apartment
\*   discovered    devices of discoveredCacheUUIDs
\*   unregistered  devices of the accessories passed to
\*                 unregisterPlatformAccessories
NoPass ==
  [st |-> "idle", outcome |-> "none", restored |-> {}, devices |-> {},
   discovered |-> {}, unregistered |-> {}]

\* every function block of the model, and a pass that starts with any
\* accessories restored
ClInit ==
  /\ fb \in FunctionBlocks
  /\ cached \in BOOLEAN
  /\ found = NotFound
  /\ \E r \in SUBSET Devs :
       pass = [NoPass EXCEPT !.st = "testing", !.restored = r]

\* one function block, for the specifications of the other components
ClIdle ==
  /\ fb = [attributes |-> FALSE, name |-> "undefined",
           technicalName |-> Absent, outputs |-> Absent]
  /\ cached = FALSE
  /\ found = NotFound
  /\ pass = NoPass

ClNext == Discover

(***************************************************************************)
(* Status synchronizer (DigitalStromPlatform) and device handlers           *)
(*                                                                          *)
(* The apartment has two devices; an accessory has its device's name (the   *)
(* uuid is generated from the device id).  Numbers of outputs are in halves *)
(* (3 stands for 1.5), so that Math.round is not the identity.              *)
(***************************************************************************)
\* the function blocks of the model's apartment
FunctionBlockOf(d) ==
  IF d = "lamp"
    THEN [attributes |-> TRUE, name |-> "set",
          technicalName |-> GE \o <<"-", "K", "M">>,
          outputs |-> <<"brightness">>]
    ELSE [attributes |-> TRUE, name |-> "set",
          technicalName |-> GR \o <<"-", "K", "L">>,
          outputs |-> <<"shadePositionOutside">>]

\* OutputStatus of the 'brightness' output of a light
LightOutputs ==
  { [status |-> "ok", value |-> 0, initialValue |-> 0, targetValue |-> 0],
    [status |-> "ok", value |-> 3, initialValue |-> 0, targetValue |-> 3] }

\* OutputStatus of the 'shadePositionOutside' output of a shade
ShadeOutputs ==
  { [status |-> "ok", value |-> 0, initialValue |-> 0, targetValue |-> 0],
    [status |-> "moving", value |-> 1, initialValue |-> 0, targetValue |-> 3],
    [status |-> "ok", value |-> 3, initialValue |-> 0, targetValue |-> 3] }

\* the loop at the end of discoverDevices(): the restored accessories that
\* are not in discoveredCacheUUIDs are unregistered
removeUndiscovered(p) ==
  [p EXCEPT !.st = "done", !.unregistered = p.restored \ p.discovered]

\* discoverDevices() resumes after testConnection(): when the test has
\* failed it returns
ConnectionTested(connected) ==
  /\ pass.st = "testing"
  /\ pass' = IF connected
               THEN [pass EXCEPT !.st = "fetching"]
               ELSE [pass EXCEPT !.st = "done", !.outcome = "testFailed"]
  /\ UNCHANGED <<fb, cached, found>>
  /\ UNCHANGED <<legacyVars, wsVars, lsVars, syVars, cvVars, ccVars, sdVars>>

\* discoverDevices() resumes after getApartment(): with the function blocks
\* it runs the loop over them, and the rejection is caught and logged; in
\* both cases the removal of the undiscovered accessories follows
ApartmentFetched(fetched, devices) ==
  /\ pass.st = "fetching"
  /\ pass' =
       IF fetched
         THEN removeUndiscovered(
                [pass EXCEPT
                   !.outcome = "ok",
                   !.devices = devices,
                   !.discovered =
                      {d \in devices :
                         discoverDevice(FunctionBlockOf(d),
                                        d \in pass.restored).registered}])
         ELSE removeUndiscovered([pass EXCEPT !.outcome = "fetchFailed"])
  /\ UNCHANGED <<fb, cached, found>>
  /\ UNCHANGED <<legacyVars, wsVars, lsVars, syVars, cvVars, ccVars, sdVars>>

\* the discovery: one function block, and one pass
DpNext ==
  \/ Discover
  \/ \E connected \in BOOLEAN : ConnectionTested(connected)
  \/ \E devices \in SUBSET Devs : ApartmentFetched(TRUE, devices)
  \/ ApartmentFetched(FALSE, {})

Outputs(d) ==
  IF getDssDeviceType(FunctionBlockOf(d)) = "light" THEN LightOutputs ELSE ShadeOutputs

Off == [status |-> "ok", value |-> 0, initialValue |-> 0, targetValue |-> 0]

Conditions == {"normal", "maintenance", "removed"}

\* what a snapshot holds of one device: its entry in included.dsDevices and
\* the outputs of its first function block
Entry(c, o) ==
  CASE c = "removed" -> [shape |-> "missing", out |-> Off]
    [] c = "maintenance" -> [shape |-> "noOutputs", out |-> Off]
    [] OTHER -> [shape |-> "outputs", out |-> o]

\* the ApartmentStatus the controller answers with
Snapshot == [d \in Devs |-> Entry(cond[d], ctrl[d])]

\* apartmentStatus is undefined
NoSnapshot == [d \in Devs |-> [shape |-> "missing", out |-> Off]]

\* reasons for which axios rejects a request
Failures == {"non2xx", "timeout", "network"}

NoHandler == [kind |-> "none"]

\* new LightPlatformAccessory(platform, accessory)
LightPlatformAccessory(hasBrightness) ==
  [kind |-> "light", hasBrightness |-> hasBrightness,
   targetValue |-> 0, brightness |-> 0]

\* new ShadePlatformAccessory(platform, accessory)
ShadePlatformAccessory ==
  [kind |-> "shade", positionState |-> "ok",
   currentPosition |-> 0, targetPosition |-> 0]

\* Math.floor of a number given in halves
Math_floor(h) == h \div 2

\* Math.round of a number given in halves
Math_round(h) == (h + 1) \div 2

\* LightPlatformAccessory.updateState with the device's outputs applied even
\* when they are absent
LightUpdateState_Default(h, e) ==
  LET out == e.out
  IN [h |-> [h EXCEPT !.targetValue = Math_round(out.targetValue),
                       !.brightness = IF h.hasBrightness
                                        THEN Math_round(out.value) ELSE @],
      threw |-> FALSE, pushed |-> TRUE]

\* LightPlatformAccessory.updateState
LightUpdateState(h, e) ==
  IF e.shape # "outputs"
    THEN [h |-> h, threw |-> FALSE, pushed |-> FALSE]
    ELSE LET out == e.out
         IN [h |-> [h EXCEPT !.targetValue = Math_round(out.targetValue),
                              !.brightness = IF h.hasBrightness
                                               THEN Math_round(out.value)
                                               ELSE @],
             threw |-> FALSE, pushed |-> TRUE]

\* ShadeAccessory.updateState: deviceStatus.attributes throws a TypeError when
\* the snapshot has no entry for the device
ShadeUpdateState(h, e) ==
  IF e.shape = "missing"
    THEN [h |-> h, threw |-> TRUE, pushed |-> FALSE]
  ELSE IF e.shape = "noOutputs"
    THEN [h |-> h, threw |-> FALSE, pushed |-> FALSE]
  ELSE LET out == e.out
       IN [h |-> [h EXCEPT
                    !.positionState = out.status,
                    !.currentPosition =
                       IF out.status = "moving"
                         THEN Math_round(out.initialValue)
                         ELSE Math_round(out.value),
                    !.targetPosition = Math_round(out.targetValue)],
           threw |-> FALSE, pushed |-> TRUE]

\* handler.updateState(apartmentStatus)
updateState(h, e) ==
  IF h.kind = "light" THEN LightUpdateState(h, e) ELSE ShadeUpdateState(h, e)

\* for (const accessory of this.accessories.values()) { ... }: an exception of
\* updateState leaves the loop
RECURSIVE forAccessories(_, _, _)
forAccessories(accs, hm, snap) ==
  IF accs = <<>>
    THEN [hm |-> hm, invoked |-> {}, pushed |-> {}, threw |-> FALSE]
  ELSE LET d == Head(accs)
       IN IF hm[d] = NoHandler
            THEN forAccessories(Tail(accs), hm, snap)
          ELSE LET r == updateState(hm[d], snap[d])
               IN IF r.threw
                    THEN [hm |-> hm, invoked |-> {d}, pushed |-> {},
                          threw |-> TRUE]
                  ELSE LET rest == forAccessories(Tail(accs),
                                     [hm EXCEPT ![d] = r.h], snap)
                       IN [rest EXCEPT
                             !.invoked = @ \cup {d},
                             !.pushed = @ \cup (IF r.pushed THEN {d} ELSE {})]

\* arguments is the sequence of the types of json.arguments: it is
\* NoArguments when the object has no member 'arguments', and a type is
\* "undefined" when the argument has no member 'type'
NoArguments == <<"none">>

\* the text of msg.command as JSON.parse sees it
Commands ==
  { [json |-> "object", arguments |-> <<"apartmentStatusChanged">>],
    [json |-> "object", arguments |-> <<"other">>],
    [json |-> "object", arguments |-> <<"other", "apartmentStatusChanged">>],
    [json |-> "object", arguments |-> <<"undefined">>],
    [json |-> "object", arguments |-> <<>>],
    [json |-> "object", arguments |-> NoArguments],
    [json |-> "null", arguments |-> NoArguments],
    [json |-> "invalid", arguments |-> NoArguments] }

NoCommand == [json |-> "nothing", arguments |-> NoArguments]

\* the notification the controller sends when its state has changed
Notification ==
  [json |-> "object", arguments |-> <<"apartmentStatusChanged">>]

\* the listener's test without the comparison of the type
isStatusChanged_AnyType(c) ==
  /\ c.json = "object"
  /\ c.arguments # NoArguments

\* json.arguments && json.arguments[0]?.type === 'apartmentStatusChanged',
\* FALSE also when JSON.parse or the member access throws
isStatusChanged(c) ==
  /\ c.json = "object"
  /\ c.arguments # NoArguments
  /\ Len(c.arguments) >= 1
  /\ c.arguments[1] = "apartmentStatusChanged"

\* JSON.parse(msg.command) throws, or json.arguments does for json = null
listenerThrows(c) == c.json \in {"invalid", "null"}

NoFanout ==
  [done |-> FALSE, fetchOk |-> FALSE, snap |-> NoSnapshot, invoked |-> {},
   pushed |-> {}, threw |-> FALSE, logged |-> FALSE]

InFlight == requested + BagCardinality(answered)

\* configureAccessory(accessory)
configureAccessory(d) ==
  /\ phase = "restoring"
  /\ \A i \in 1..Len(accessories) : accessories[i] # d
  /\ accessories' = Append(accessories, d)
  /\ heard' = NoCommand
  /\ fanout' = NoFanout
  /\ UNCHANGED <<phase, handlerMap, ctrl, cond, changes, pending,
                 requested, answered>>
  /\ UNCHANGED <<legacyVars, wsVars, lsVars, cvVars, ccVars, clVars, sdVars>>

\* the didFinishLaunching handler with initializeValidation() returning
\* true: the channel is created, STATUS_LISTENER is registered and
\* discoverDevices() awaits the controller
DidFinishLaunching ==
  /\ phase = "restoring"
  /\ phase' = "discovering"
  /\ heard' = NoCommand
  /\ fanout' = NoFanout
  /\ UNCHANGED <<accessories, handlerMap, ctrl, cond, changes, pending, requested, answered>>
  /\ UNCHANGED <<legacyVars, wsVars, lsVars, cvVars, ccVars, clVars, sdVars>>

\* createAccessoryHandler(dssDeviceType, accessory, device)
createAccessoryHandler(d, hasBrightness) ==
  IF getDssDeviceType(FunctionBlockOf(d)) = "light"
    THEN LightPlatformAccessory(hasBrightness)
    ELSE ShadePlatformAccessory

\* discoverDevices() resumes with the function blocks of the apartment
\* (none when testConnection() or getApartment() failed): a handler is
\* created for the restored and for the new accessory alike, and only the
\* restored ones are in this.accessories
discoverDevices ==
  /\ phase = "discovering"
  /\ \E devices \in SUBSET Devs, hasBrightness \in BOOLEAN :
       handlerMap' = [d \in Devs |->
                        IF d \in devices
                          THEN createAccessoryHandler(d, hasBrightness)
                          ELSE NoHandler]
  /\ phase' = "running"
  /\ heard' = NoCommand
  /\ fanout' = NoFanout
  /\ UNCHANGED <<accessories, ctrl, cond, changes, pending,
                 requested, answered>>
  /\ UNCHANGED <<legacyVars, wsVars, lsVars, cvVars, ccVars, clVars, sdVars>>

\* the state of the controller changes, and the controller notifies the
\* clients that are connected: the notification is lost when the event
\* channel is down at that moment or drops before it has arrived, and there
\* is no channel before the didFinishLaunching handler has created it
ControllerChange(d, o, c) ==
  /\ changes < MaxChanges
  /\ <<o, c>> # <<ctrl[d], cond[d]>>
  /\ ctrl' = [ctrl EXCEPT ![d] = o]
  /\ cond' = [cond EXCEPT ![d] = c]
  /\ changes' = changes + 1
  /\ \E lost \in BOOLEAN :
       /\ phase = "restoring" => lost
       /\ pending' = IF lost THEN pending ELSE pending + 1
  /\ heard' = NoCommand
  /\ fanout' = NoFanout
  /\ UNCHANGED <<phase, accessories, handlerMap, requested,
                 answered>>
  /\ UNCHANGED <<legacyVars, wsVars, lsVars, cvVars, ccVars, clVars, sdVars>>

\* STATUS_LISTENER(msg), with updateAccessories() up to its await
STATUS_LISTENER(c) ==
  /\ phase # "restoring"
  /\ c = Notification => pending > 0
  /\ pending' = IF c = Notification THEN pending - 1 ELSE pending
  /\ heard' = c
  /\ fanout' = NoFanout
  /\ IF ~listenerThrows(c) /\ isStatusChanged(c) /\ Len(accessories) # 0
       THEN /\ InFlight < MaxCycles
            /\ requested' = requested + 1
       ELSE requested' = requested
  /\ UNCHANGED <<phase, accessories, handlerMap, ctrl, cond, changes,
                 answered>>
  /\ UNCHANGED <<legacyVars, wsVars, lsVars, cvVars, ccVars, clVars, sdVars>>

\* what axios makes of the outcome of a status request: the snapshot of the
\* moment, or a rejection
Answer(why) ==
  IF why = "none" THEN [ok |-> TRUE, snap |-> Snapshot]
                  ELSE [ok |-> FALSE, snap |-> NoSnapshot]

\* the controller answers a status request, or the request fails
ServerAnswer ==
  /\ requested > 0
  /\ requested' = requested - 1
  /\ \E why \in {"none"} \cup Failures :
       answered' = answered (+) SetToBag({Answer(why)})
  /\ heard' = NoCommand
  /\ fanout' = NoFanout
  /\ UNCHANGED <<phase, accessories, handlerMap, ctrl, cond, changes,
                 pending>>
  /\ UNCHANGED <<legacyVars, wsVars, lsVars, cvVars, ccVars, clVars, sdVars>>

\* getApartmentStatus() with a failure swallowed: it returns undefined
getApartmentStatus_Swallow(a) ==
  [threw |-> FALSE, data |-> a.snap]

\* digitalStromAPI.getApartmentStatus(): the response interceptor and the
\* catch block log a failure and throw it again
getApartmentStatus(a) ==
  [threw |-> ~a.ok, data |-> a.snap]

\* an updateAccessories() whose status request went through the request
\* interceptor of the legacy client, which logged in and stored the token
updateAccessories_LegacyLogin ==
  \E a \in DOMAIN answered :
    /\ answered' = answered (-) SetToBag({a})
    /\ LET r == getApartmentStatus(a)
           f == forAccessories(accessories, handlerMap, r.data)
       IN IF r.threw
            THEN /\ handlerMap' = handlerMap
                 /\ fanout' = [NoFanout EXCEPT !.done = TRUE,
                                               !.fetchOk = a.ok,
                                               !.logged = TRUE]
            ELSE /\ handlerMap' = f.hm
                 /\ fanout' = [done |-> TRUE, fetchOk |-> a.ok,
                               snap |-> r.data, invoked |-> f.invoked,
                               pushed |-> f.pushed, threw |-> f.threw,
                               logged |-> f.threw]
    /\ heard' = NoCommand
    /\ \E t \in Tokens : sessionToken' = t
    /\ expiresOn' = setSessionTimeout(now)
    /\ UNCHANGED <<now, ticks, req>>
    /\ UNCHANGED <<phase, accessories, ctrl, cond, changes, pending, requested>>
    /\ UNCHANGED <<wsVars, lsVars, cvVars, ccVars, clVars, sdVars>>

\* updateAccessories() resumes with the answer to its request
updateAccessories ==
  \E a \in DOMAIN answered :
    /\ answered' = answered (-) SetToBag({a})
    /\ LET r == getApartmentStatus(a)
           f == forAccessories(accessories, handlerMap, r.data)
       IN IF r.threw
            THEN /\ handlerMap' = handlerMap
                 /\ fanout' = [NoFanout EXCEPT !.done = TRUE,
                                               !.fetchOk = a.ok,
                                               !.logged = TRUE]
            ELSE /\ handlerMap' = f.hm
                 /\ fanout' = [done |-> TRUE, fetchOk |-> a.ok,
                               snap |-> r.data, invoked |-> f.invoked,
                               pushed |-> f.pushed, threw |-> f.threw,
                               logged |-> f.threw]
    /\ heard' = NoCommand
    /\ UNCHANGED <<phase, accessories, ctrl, cond, changes, pending, requested>>
    /\ UNCHANGED <<legacyVars, wsVars, lsVars, cvVars, ccVars, clVars, sdVars>>

SyInit ==
  /\ phase = "restoring"
  /\ accessories = <<>>
  /\ handlerMap = [d \in Devs |-> NoHandler]
  /\ ctrl = [d \in Devs |-> Off]
  /\ cond = [d \in Devs |-> "normal"]
  /\ changes = 0
  /\ pending = 0
  /\ requested = 0
  /\ answered = EmptyBag
  /\ heard = NoCommand
  /\ fanout = NoFanout

\* values of an output in halves: 0, 0.5, 1.5, 42
Readings == {0, 1, 3, 84}

\* a running platform whose restored lamp has a handler, with a status
\* request of updateAccessories() on its way to a controller in any state
SyLight ==
  /\ phase = "running"
  /\ accessories = <<"lamp">>
  /\ \E hasBrightness \in BOOLEAN, b \in {0, 42} :
       handlerMap = [d \in Devs |->
                       IF d = "lamp"
                         THEN [LightPlatformAccessory(hasBrightness)
                                 EXCEPT !.brightness = b]
                         ELSE NoHandler]
  /\ \E v \in Readings, t \in Readings :
       ctrl = [d \in Devs |->
                 IF d = "lamp"
                   THEN [status |-> "ok", value |-> v, initialValue |-> 0,
                         targetValue |-> t]
                   ELSE Off]
  /\ \E c \in Conditions : cond = [d \in Devs |-> IF d = "lamp" THEN c ELSE "normal"]
  /\ changes = 0
  /\ pending = 0
  /\ requested = 1
  /\ answered = EmptyBag
  /\ heard = NoCommand
  /\ fanout = NoFanout

\* the status fetch and the fan-out of one cycle
LuNext ==
  \/ ServerAnswer
  \/ updateAccessories

SyNext ==
  \/ \E d \in Devs : configureAccessory(d)
  \/ DidFinishLaunching
  \/ discoverDevices
  \/ \E d \in Devs, c \in Conditions : \E o \in Outputs(d) :
       ControllerChange(d, o, c)
  \/ \E c \in Commands : STATUS_LISTENER(c)
  \/ ServerAnswer
  \/ updateAccessories

(***************************************************************************)
(* Certificate validation and start-up (digitalStromAPI, platform)          *)
(*                                                                          *)
(* A fingerprint is a sequence of characters and a digest a sequence of     *)
(* 2 * FpPairs lower-case hex digits; "a" and "1" stand for the hex digits  *)
(* with and without an upper-case form.                                     *)
(***************************************************************************)
HexLen == 2 * FpPairs
ColonLen == 3 * FpPairs - 1

HexDigits == {"a", "1"}

\* digest('hex'): the digests a certificate can have
Digests == [1..HexLen -> HexDigits]

\* the certificates the server presents in the model
PeerCerts == {[i \in 1..HexLen |-> "a"],
              [i \in 1..HexLen |-> IF i = HexLen THEN "1" ELSE "a"]}

toUpper(ch) == IF ch = "a" THEN "A" ELSE ch

\* String.prototype.toLowerCase of one character
toLower(ch) == IF ch = "A" THEN "a" ELSE ch

\* the hex digits h written in upper or lower case, with the separator sep
\* between the pairs ("" for none)
RECURSIVE Write(_, _, _)
Write(h, upper, sep) ==
  IF h = <<>> THEN <<>>
  ELSE LET ch == IF upper THEN toUpper(Head(h)) ELSE Head(h)
           gap == IF sep # "" /\ Len(h) % 2 = 1 /\ Len(h) > 1
                    THEN <<sep>> ELSE <<>>
       IN <<ch>> \o gap \o Write(Tail(h), upper, sep)

Separators == {"", ":", " "}

\* the ways of writing the digest h
Writings(h) == {Write(h, upper, sep) : upper \in BOOLEAN, sep \in Separators}

\* options.fingerprint: none, a digest in one of its writings, or a digest
\* with its last digit missing
Fingerprints ==
  {<<>>} \cup UNION {Writings(h) : h \in Digests}
         \cup {SubSeq(h, 1, HexLen - 1) : h \in Digests}

\* validateFingerprint.replace(/[:\s]/g, '').toLowerCase()
normalize(fp) ==
  LET stripped == SelectSeq(fp, LAMBDA ch : ch \notin {":", " "})
  IN [i \in 1..Len(stripped) |-> toLower(stripped[i])]

\* /^[0-9a-f:]{95}$|^[0-9a-f]{64}$/.test(fingerprint)
fingerprintFormat(fp) ==
  \/ /\ Len(fp) = ColonLen
     /\ \A i \in 1..Len(fp) : fp[i] \in HexDigits \cup {":"}
  \/ /\ Len(fp) = HexLen
     /\ \A i \in 1..Len(fp) : fp[i] \in HexDigits

\* retrieveCertificate(validateFingerprint): isValid
isValid(digest, fp) == digest = normalize(fp)

\* validateCertificate without the comparison of the fingerprints
validateCertificate_NoCompare(fp, retrieved, digest) ==
  IF ~fingerprintFormat(fp) THEN [pem |-> FALSE, log |-> "invalidFormat"]
  ELSE IF ~retrieved THEN [pem |-> FALSE, log |-> "error"]
  ELSE [pem |-> TRUE, log |-> "ok"]

\* validateCertificate(dssIP, fingerprint): the PEM certificate or null
validateCertificate(fp, retrieved, digest) ==
  IF ~fingerprintFormat(fp) THEN [pem |-> FALSE, log |-> "invalidFormat"]
  ELSE IF ~retrieved THEN [pem |-> FALSE, log |-> "error"]
  ELSE IF ~isValid(digest, fp) THEN [pem |-> FALSE, log |-> "mismatch"]
  ELSE [pem |-> TRUE, log |-> "ok"]

\* the configuration asks for the validation of the certificate
validationEnabled(c) == ~c.disableCertificateValidation /\ c.fingerprint # <<>>

\* initializeValidation() that skips the validation without the warning
initializeValidation_Silent(c, retrieved, digest) ==
  IF validationEnabled(c)
    THEN LET v == validateCertificate(c.fingerprint, retrieved, digest)
         IN [initialized |-> v.pem, log |-> v.log,
             agent |-> IF v.pem THEN "pinned" ELSE "insecure"]
    ELSE [initialized |-> TRUE, log |-> "none", agent |-> "insecure"]

\* initializeValidation() that returns true whatever the validation says
initializeValidation_AlwaysTrue(c, retrieved, digest) ==
  IF validationEnabled(c)
    THEN LET v == validateCertificate(c.fingerprint, retrieved, digest)
         IN [initialized |-> TRUE, log |-> v.log,
             agent |-> IF v.pem THEN "pinned" ELSE "insecure"]
    ELSE [initialized |-> TRUE, log |-> "skipped", agent |-> "insecure"]

\* initializeValidation(): whether it returns true, what it logs ("skipped"
\* is the warning 'certificate validation skipped'), and the agent it
\* installs
initializeValidation(c, retrieved, digest) ==
  IF validationEnabled(c)
    THEN LET v == validateCertificate(c.fingerprint, retrieved, digest)
         IN [initialized |-> v.pem, log |-> v.log,
             agent |-> IF v.pem THEN "pinned" ELSE "insecure"]
    ELSE [initialized |-> TRUE, log |-> "skipped", agent |-> "insecure"]

\* the didFinishLaunching handler up to its first await
Launch ==
  /\ boot = "constructed"
  /\ boot' = IF ~config.disableCertificateValidation /\ config.fingerprint = <<>>
               THEN "probing" ELSE "validating"
  /\ UNCHANGED <<config, peerCert, httpsAgent, apiRequests, wsCreated, certLog>>
  /\ UNCHANGED <<legacyVars, wsVars, lsVars, syVars, ccVars, clVars, sdVars>>

\* ... resumed after initializeValidation(): when it has returned true, the
\* channel is created and discoverDevices() sends its first request
Initialized(r) ==
  /\ httpsAgent' = r.agent
  /\ certLog' = r.log
  /\ IF r.initialized
       THEN /\ boot' = "running"
            /\ wsCreated' = TRUE
            /\ apiRequests' = 1
       ELSE /\ boot' = "disabled"
            /\ UNCHANGED <<wsCreated, apiRequests>>
  /\ UNCHANGED <<config, peerCert>>
  /\ UNCHANGED <<legacyVars, wsVars, lsVars, syVars, ccVars, clVars, sdVars>>

\* ... resumed after getCertificateFingerprint(): with a fingerprint the
\* plugin is disabled; without one initializeValidation() is called, which
\* skips the validation
Probed(retrieved) ==
  /\ boot = "probing"
  /\ IF retrieved
       THEN /\ boot' = "disabled"
            /\ UNCHANGED <<config, peerCert, httpsAgent, apiRequests,
                           wsCreated, certLog>>
            /\ UNCHANGED <<legacyVars, wsVars, lsVars, syVars, ccVars, clVars, sdVars>>
       ELSE Initialized(initializeValidation(config, FALSE, peerCert))

\* ... resumed after initializeValidation()
Validated(retrieved) ==
  /\ boot = "validating"
  /\ Initialized(initializeValidation(config, retrieved, peerCert))

\* a request of discoverDevices(), updateAccessories() or a handler
ApiRequest ==
  /\ boot = "running"
  /\ apiRequests < MaxRequests
  /\ apiRequests' = apiRequests + 1
  /\ UNCHANGED <<config, peerCert, boot, httpsAgent, wsCreated, certLog>>
  /\ UNCHANGED <<legacyVars, wsVars, lsVars, syVars, ccVars, clVars, sdVars>>

CvInit ==
  /\ config \in [fingerprint : Fingerprints,
                 disableCertificateValidation : BOOLEAN]
  /\ peerCert \in PeerCerts
  /\ boot = "constructed"
  /\ httpsAgent = "insecure"
  /\ apiRequests = 0
  /\ wsCreated = FALSE
  /\ certLog = "none"

\* one configuration and certificate, for the specifications of the other
\* components
CvIdle ==
  /\ config = [fingerprint |-> <<>>, disableCertificateValidation |-> FALSE]
  /\ peerCert = [i \in 1..HexLen |-> "a"]
  /\ boot = "constructed"
  /\ httpsAgent = "insecure"
  /\ apiRequests = 0
  /\ wsCreated = FALSE
  /\ certLog = "none"

CvNext ==
  \/ Launch
  \/ \E retrieved \in BOOLEAN : Probed(retrieved)
  \/ \E retrieved \in BOOLEAN : Validated(retrieved)
  \/ ApiRequest

(***************************************************************************)
(* Controller client with the static bearer token (digitalStromAPI) and the *)
(* commands of the device handlers                                          *)
(***************************************************************************)
CmdIds == 1..MaxCmds

\* turnOnDevice, turnOffDevice, setDeviceOutputValue
Writes == {"turnOn", "turnOff", "setOutput"}

\* getApartment, getApartmentStatus
Reads == {"getApartment", "getApartmentStatus"}

\* what becomes of a request
Replies == {"2xx", "401", "500", "timeout", "network"}

InitCmd ==
  [pc |-> "idle", op |-> "none", wires |-> 0, reply |-> "none",
   logged |-> FALSE, promise |-> "none", hap |-> FALSE]

\* LightPlatformAccessory.setOn / setBrightness, getApartment(),
\* getApartmentStatus(): the request goes on the wire
Call(k, op) ==
  /\ cmd[k].pc = "idle"
  /\ cmd' = [cmd EXCEPT ![k] = [InitCmd EXCEPT !.pc = "wire", !.op = op,
                                               !.wires = 1,
                                               !.promise = "pending"]]
  /\ UNCHANGED <<legacyVars, wsVars, lsVars, syVars, cvVars, clVars, sdVars>>

\* a response interceptor that repeats a request answered with 401
onRejected_Retry401(r, reply) ==
  IF reply = "401" /\ r.wires < MaxWire
    THEN [r EXCEPT !.reply = reply, !.logged = TRUE, !.wires = @ + 1]
    ELSE [r EXCEPT !.reply = reply, !.logged = TRUE, !.pc = "thrown"]

\* axios.interceptors.response, error branch: log.error and throw
onRejected(r, reply) ==
  [r EXCEPT !.reply = reply, !.logged = TRUE, !.pc = "thrown"]

\* postApiRequest, patchApiRequest, getApartment, getApartmentStatus: the
\* catch block logs and throws, so the promise is rejected; setOn and
\* setBrightness catch that, log and throw a HapStatusError
settleCmd(r) ==
  IF r.pc = "thrown"
    THEN [r EXCEPT !.pc = "done", !.promise = "rejected",
                   !.hap = r.op \in Writes]
    ELSE r

\* the request of call k is answered, times out or fails
Respond(k, reply) ==
  /\ cmd[k].pc = "wire"
  /\ cmd' = [cmd EXCEPT ![k] =
               IF reply = "2xx"
                 THEN [@ EXCEPT !.reply = reply, !.pc = "done",
                                !.promise = "resolved"]
                 ELSE settleCmd(onRejected(@, reply))]
  /\ UNCHANGED <<legacyVars, wsVars, lsVars, syVars, cvVars, clVars, sdVars>>

\* the caller has its result
Finish(k) ==
  /\ cmd[k].pc = "done"
  /\ cmd' = [cmd EXCEPT ![k] = InitCmd]
  /\ UNCHANGED <<legacyVars, wsVars, lsVars, syVars, cvVars, clVars, sdVars>>

CcInit == cmd = [k \in CmdIds |-> InitCmd]

CcNext ==
  \/ \E k \in CmdIds, op \in Writes \cup Reads : Call(k, op)
  \/ \E k \in CmdIds, reply \in Replies : Respond(k, reply)
  \/ \E k \in CmdIds : Finish(k)

vars == <<now, sessionToken, expiresOn, ticks, req,
          isConnecting, retryCount, heartbeatInterval, intervals, objs,
          timers, timed,
          ping, send, lastDelay,
          listeners, rx, delivered, lastMsg, errorLogged,
          phase, accessories, handlerMap, ctrl, cond, changes, pending, requested, answered, heard, fanout,
          config, peerCert, boot, httpsAgent, apiRequests, wsCreated, certLog,
          cmd, fb, cached, found, pass, shutdown>>

\* every interleaving of the events of the event channel
Init ==
  /\ LegacyInit /\ WsInit /\ LsInit /\ timed = FALSE
  /\ SyInit /\ CvIdle /\ CcInit /\ ClIdle /\ shutdown = FALSE

\* the interleavings that the delays of the event channel allow
InitTimed ==
  /\ LegacyInit /\ WsInit /\ LsInit /\ timed = TRUE
  /\ SyInit /\ CvIdle /\ CcInit /\ ClIdle /\ shutdown = FALSE

\* every configured fingerprint and certificate of the model
InitCert ==
  /\ LegacyInit /\ WsInit /\ LsInit /\ timed = FALSE
  /\ SyInit /\ CvInit /\ CcInit /\ ClIdle /\ shutdown = FALSE

\* one synchronization cycle for a light
InitLight ==
  /\ LegacyInit /\ WsInit /\ LsInit /\ timed = FALSE
  /\ SyLight /\ CvIdle /\ CcInit /\ ClIdle /\ shutdown = FALSE

\* every function block of the model
InitDiscover ==
  /\ LegacyInit /\ WsInit /\ LsInit /\ timed = FALSE
  /\ SyInit /\ CvIdle /\ CcInit /\ ClInit /\ shutdown = FALSE

\* the event channel with STATUS_LISTENER registered
InitShutdown ==
  /\ LegacyInit /\ WsInit /\ LsRegistered /\ timed = FALSE
  /\ SyInit /\ CvIdle /\ CcInit /\ ClIdle /\ shutdown = FALSE

\* the legacy client alone
SpecLegacy == Init /\ [][LegacyNext]_vars

\* the connection handling of the event channel, every interleaving of its
\* events
SpecWS == Init /\ [][WsNext]_vars

\* the connection handling of the event channel, the interleavings that the
\* delays allow
SpecWSTimed == InitTimed /\ [][WsNext]_vars

\* the listeners of the event channel and its inbound frames
SpecListeners == Init /\ [][LsNext]_vars

\* the inbound frames of the event channel with its connections
SpecInbound == Init /\ [][InNext]_vars

\* the status synchronizer, the controller and the device handlers
SpecSync == Init /\ [][SyNext]_vars

\* the start-up with the validation of the certificate
SpecCert == InitCert /\ [][CvNext]_vars

\* the controller client with the static token
SpecClient == Init /\ [][CcNext]_vars

\* one synchronization cycle applied to the handler of a light
SpecLight == InitLight /\ [][LuNext]_vars

\* the discovery of one function block
SpecDiscover == InitDiscover /\ [][DpNext]_vars

\* the event channel, its inbound frames and the shutdown of the plugin
SpecShutdown == InitShutdown /\ [][SdNext]_vars

(***************************************************************************)
(* Claims on the legacy client                                              *)
(***************************************************************************)

\* C1: a caller request rejected for authentication is followed by exactly one
\* re-login and exactly one retry; a second rejection is surfaced, so one
\* caller request is transmitted at most twice and re-logs in at most once.
C1_AtMostOneRetry ==
  \A c \in Calls : req[c].relogins <= 1 /\ req[c].wires <= 2

\* C2: whenever a non-login request goes on the wire, the session token is
\* present and not expired at that moment and it is the token the request
\* carries; a request whose login failed is not sent at all.
C2_SentOnlyWithValidToken ==
  [][\A c \in Calls :
       /\ req'[c].wires > req[c].wires =>
            /\ sessionToken' # NoToken
            /\ expiresOn' # Undefined
            /\ now' <= expiresOn'
            /\ req'[c].tok = sessionToken'
            /\ req'[c].login # "failed"
       /\ req'[c].login = "failed" => req'[c].wires = req[c].wires
    ]_vars

\* after more than a session lifetime a request has found no valid token,
\* has logged in and is on the wire with the token of that login
C2_Witness ==
  /\ now > SessionTimeoutMs
  /\ expiresOn = setSessionTimeout(now)
  /\ \E c \in Calls :
       /\ req[c].pc = "wire" /\ req[c].login = "ok" /\ req[c].relogins = 0
       /\ req[c].tok = sessionToken

(***************************************************************************)
(* Claims on the event channel                                              *)
(***************************************************************************)
\* the number of objects of the bag B in condition st
N(B, st) == BagCardinality(Those(B, LAMBDA o : o.st = st))

\* the step starts a connection attempt
AttemptStarted == N(objs', "connecting") > N(objs, "connecting")

\* the step creates a reconnect timer
TimerCreated == timers' > timers

\* the step is a successful connect
Connected == N(objs', "open") > N(objs, "open")

\* the step is a failed connection attempt
Failed == retryCount' = retryCount + 1

MinNat(a, b) == IF a < b THEN a ELSE b

\* the retry budget is exhausted
GivenUp == retryCount >= maxRetries

\* C3: once maxRetries consecutive attempts have failed, the channel has given
\* up for good: GivenUp is terminal and no step taken in it starts a connection
\* attempt.
C3_GivenUpIsTerminal == [][GivenUp => (GivenUp' /\ ~AttemptStarted)]_vars

\* C4: the failure that exhausts the retry budget, and every step taken while
\* it is exhausted, creates no reconnect timer.
C4_NoTimerAfterGivenUp == [][GivenUp' => ~TimerCreated]_vars

\* C5: the delay of a failed attempt is at most the ceiling, is the base delay
\* when no attempt has failed since the last successful connect, and otherwise
\* is twice the previous delay (capped), so it never decreases; a successful
\* connect leaves the retry counter at zero.
C5_Backoff ==
  [][/\ Failed =>
          /\ lastDelay' <= MAX_RETRY_DELAY
          /\ lastDelay' >= lastDelay
          /\ lastDelay = 0 => lastDelay' = BASE_RETRY_DELAY
          /\ lastDelay # 0 => lastDelay' = MinNat(2 * lastDelay, MAX_RETRY_DELAY)
     /\ Connected => retryCount' = 0
    ]_vars

\* a connect has succeeded (its heartbeat is still set) and six attempts have
\* failed since, counted from zero, the last of them with the ceiling as delay
C5_Witness ==
  /\ heartbeatInterval /\ \E o \in DOMAIN objs : o.cur
  /\ retryCount = 6 /\ lastDelay = MAX_RETRY_DELAY

\* C6: every reconnect goes through the backoff: a connection attempt is
\* started only when a reconnect timer fires or a caller's send connects
\* implicitly, and every reconnect timer is created together with an increment
\* of the retry counter.
C6_ReconnectsUseBackoff ==
  [][/\ AttemptStarted =>
          \/ timers' < timers
          \/ \E s \in Sends : send'[s].connects > send[s].connects
     /\ TimerCreated => Failed
    ]_vars

\* C7: when a ping times out, the current connection is no longer open after
\* the step and a connection attempt is in flight.
C7_TimeoutReconnects ==
  [][(ping.st = "waiting" /\ ping'.last = "timeout") =>
        /\ \A o \in DOMAIN objs' : o.cur => o.st # "open"
        /\ \E o \in DOMAIN objs' : o.st = "connecting"
    ]_vars

\* C8: every inbound text frame is passed to every registered listener, in
\* registration order, also to those registered after a listener that throws.
C8_ThrowingListenerIsolated ==
  [][(rx' # rx /\ lastMsg'.type = "utf8") =>
       delivered' = [i \in DOMAIN listeners |-> listeners[i].id]
    ]_vars

\* C9: no send is left pending with nothing outstanding that could settle it:
\* a pending send has a frame in transmission or is carried as the callback of
\* a connection attempt.
C9_NoSendLeftPending ==
  \A s \in Sends :
    send[s].st = "pending" =>
      \/ send[s].inflight > 0
      \/ \E o \in DOMAIN objs : o.st = "connecting" /\ o.cb = s

\* C10: one send call connects implicitly at most once and writes its frame
\* at most once; after an implicit connect the frame is written only in the
\* step in which the attempt carrying the call succeeds.
C10_AtMostOneRetry ==
  [][\A s \in Sends :
       /\ send'[s].connects <= 1
       /\ send'[s].writes <= 1
       /\ (send[s].connects = 1 /\ send'[s].writes > send[s].writes) =>
            /\ \E o \in DOMAIN objs : o.st = "connecting" /\ o.cb = s
            /\ \E o \in DOMAIN objs' : o.st = "open" /\ o.cb = s
    ]_vars

\* a send made without a connection has connected implicitly, written its
\* frame once and been resolved
C10_Witness ==
  \E s \in Sends :
    send[s].connects = 1 /\ send[s].writes = 1 /\ send[s].st = "resolved"

(***************************************************************************)
(* Claims on the status synchronizer and the device handlers                *)
(***************************************************************************)
\* updateAccessories() has resumed in this step
FanoutStep == fanout'.done

\* the devices of the restored accessories
Restored == {accessories[i] : i \in 1..Len(accessories)}

\* C11: when updateAccessories() resumes with a snapshot and no handler
\* throws, updateState is invoked on the handler of every device that has
\* one, whether its accessory was restored from the cache or added by
\* discoverDevices.
C11_EveryHandlerUpdated ==
  [][(FanoutStep /\ fanout'.fetchOk /\ ~fanout'.threw)
       => \A d \in Devs : handlerMap[d] # NoHandler => d \in fanout'.invoked]_vars

\* C12: when updateAccessories() resumes with a snapshot, updateState is
\* invoked on every handler the loop goes over, also when one of them
\* throws, and an exception is logged.
C12_ThrowingHandlerIsolated ==
  [][(FanoutStep /\ fanout'.fetchOk)
       => /\ \A d \in Restored :
               handlerMap[d] # NoHandler => d \in fanout'.invoked
          /\ fanout'.threw => fanout'.logged]_vars

\* C13: when updateAccessories() resumes with a snapshot that has no outputs
\* for a device, the handler of the device keeps every cached value and no
\* characteristic of it is updated.
C13_AbsentOutputsLeaveCache ==
  [][FanoutStep
       => \A d \in Devs :
            fanout'.snap[d].shape = "noOutputs"
              => handlerMap'[d] = handlerMap[d] /\ d \notin fanout'.pushed]_vars

\* the handler of a light was invoked with a snapshot that has no outputs
\* for its device
C13_Witness ==
  \E d \in Devs :
    /\ fanout.done /\ fanout.fetchOk
    /\ fanout.snap[d].shape = "noOutputs"
    /\ d \in fanout.invoked
    /\ handlerMap[d].kind = "light"

\* C14: a status request is started only in a step in which STATUS_LISTENER
\* is called with a notification of type apartmentStatusChanged; a call with
\* any other command, or with one that cannot be parsed, starts no request
\* and leaves the handlers as they are.
C14_OnlyStatusChangedFetches ==
  [][/\ requested' > requested => heard' = Notification
     /\ (heard' # NoCommand /\ heard' # Notification)
          => requested' = requested /\ handlerMap' = handlerMap]_vars

\* STATUS_LISTENER was called with a command that cannot be parsed while
\* there are accessories to update
C14_Witness ==
  /\ heard.json = "invalid"
  /\ phase = "running"
  /\ \E d \in Restored : handlerMap[d] # NoHandler

\* what a handler caches of the output o
View(h, o) ==
  IF h.kind = "light"
    THEN /\ h.targetValue = Math_round(o.targetValue)
         /\ h.hasBrightness => h.brightness = Math_round(o.value)
    ELSE /\ h.positionState = o.status
         /\ h.targetPosition = Math_round(o.targetValue)
         /\ h.currentPosition = IF o.status = "moving"
                                  THEN Math_round(o.initialValue)
                                  ELSE Math_round(o.value)

\* C15: when no notification is on its way and no status request is in
\* flight, the cache of every handler agrees with the state the controller
\* reports of its device.
C15_EventuallyConsistent ==
  (phase = "running" /\ pending = 0 /\ InFlight = 0)
    => \A d \in Devs :
         (handlerMap[d] # NoHandler /\ cond[d] = "normal")
           => View(handlerMap[d], ctrl[d])

\* C18: when the status request has failed, updateAccessories() invokes no
\* handler, leaves the handlers as they are, and logs the failure.
C18_FailedReadSkipsCycle ==
  [][(FanoutStep /\ ~fanout'.fetchOk)
       => /\ fanout'.invoked = {}
          /\ handlerMap' = handlerMap
          /\ fanout'.logged]_vars

\* a status request has failed while there is a handler to update
C18_Witness ==
  /\ fanout.done /\ ~fanout.fetchOk
  /\ \E d \in Restored : handlerMap[d] # NoHandler

(***************************************************************************)
(* Claims on the certificate validation                                     *)
(***************************************************************************)
\* the validation is asked for and the digest of the server's certificate
\* differs from the normalized fingerprint
Mismatch ==
  validationEnabled(config) /\ normalize(config.fingerprint) # peerCert

\* C16: when the digest of the server's certificate differs from the
\* normalized configured fingerprint, no certificate is pinned, the
\* start-up does not get to "running", no authenticated request is issued
\* and the event channel is not created.
C16_MismatchIsFatal ==
  Mismatch => /\ httpsAgent # "pinned"
              /\ boot # "running"
              /\ apiRequests = 0
              /\ ~wsCreated

\* a well-formed fingerprint was compared with a different digest
C16_Witness ==
  Mismatch /\ certLog = "mismatch" /\ boot = "disabled"

\* C17: when the configured fingerprint is the digest of the server's
\* certificate, written in upper or lower case and with or without colons
\* or spaces, and the certificate was retrieved, the validation succeeds.
C17_AnyWritingValidates ==
  (/\ validationEnabled(config)
   /\ config.fingerprint \in Writings(peerCert)
   /\ certLog \notin {"none", "error"})
    => httpsAgent = "pinned" /\ boot = "running"

(***************************************************************************)
(* Claims on the controller client with the static token                    *)
(***************************************************************************)
\* C19: a turnOn, turnOff or setOutput request that has failed is logged,
\* was sent once, and its failure does not reach the caller: the promise is
\* not rejected and no error is thrown to HomeKit.
C19_WriteFailureNotSurfaced ==
  \A k \in CmdIds :
    (cmd[k].pc = "done" /\ cmd[k].op \in Writes /\ cmd[k].reply # "2xx")
      => /\ cmd[k].logged
         /\ cmd[k].wires = 1
         /\ cmd[k].promise # "rejected"
         /\ ~cmd[k].hap

\* C20: a request answered with 401 was sent once, is over, and the
\* failure was logged.
C20_UnauthorizedIsTerminal ==
  \A k \in CmdIds :
    cmd[k].reply = "401"
      => cmd[k].pc = "done" /\ cmd[k].wires = 1 /\ cmd[k].logged

\* a request was answered with 401
C20_Witness ==
  \E k \in CmdIds : cmd[k].reply = "401" /\ cmd[k].pc = "done"

(***************************************************************************)
(* Claims on the start-up without and with a validated certificate         *)
(***************************************************************************)
\* C21: when a request has been issued and the certificate of the server
\* was not validated, initializeValidation() has logged the warning that
\* the validation is skipped (it does so before it returns, and the first
\* request comes after its return).
C21_UnvalidatedStartWarns ==
  (apiRequests > 0 /\ httpsAgent # "pinned") => certLog = "skipped"

\* requests were issued with the validation disabled in the configuration
C21_Witness ==
  /\ apiRequests > 0
  /\ httpsAgent = "insecure"
  /\ config.disableCertificateValidation
  /\ config.fingerprint # <<>>

\* C29: when the configuration asks for the validation, a request is issued
\* only with the validated certificate pinned, and the pinned certificate
\* stays installed in every later step.
C29_PinnedBeforeRequests ==
  [][/\ (validationEnabled(config) /\ apiRequests' > 0)
          => httpsAgent' = "pinned"
     /\ httpsAgent = "pinned" => httpsAgent' = "pinned"]_vars

\* a request was issued after the validation had succeeded
C29_Witness ==
  validationEnabled(config) /\ httpsAgent = "pinned" /\ apiRequests = MaxRequests

(***************************************************************************)
(* Claims on the discovery of the devices                                  *)
(***************************************************************************)
\* the function block has attributes and its name is not null
Named == fb.attributes /\ fb.name # "null"

\* the function block has the member outputs
HasOutputs == fb.attributes /\ fb.outputs # Absent

C22_ShutdownIsFinal ==
  shutdown =>
    /\ \A i \in 1..Len(listeners) : listeners[i].id # STATUS_LISTENER_ID
    /\ connection(Chan) = {}
    /\ ~heartbeatInterval

(***************************************************************************)
(* Claims on the outbound frames                                           *)
(***************************************************************************)
\* C24: on every established connection the first frame written is the
\* protocol handshake: no command of a caller, the one whose send started
\* the connect included, is written to a connection before it; nothing is
\* written to a connection that is not established.
C24_HandshakeFirst ==
  \A o \in DOMAIN objs :
    IF o.st = "connecting" THEN o.first = "none" ELSE o.first = "handshake"

\* the command of a send call that started the connect has been written to
\* the connection this connect established
C24_Witness ==
  /\ \E s \in Sends : send[s].connects > 0 /\ send[s].writes > 0
  /\ \E o \in connection(Chan) : o.st = "open" /\ o.first = "handshake"

(***************************************************************************)
(* Claims on the inbound frames                                            *)
(***************************************************************************)
\* C25: the step that handles an inbound text frame calls every listener
\* registered at that moment, once each and in registration order, before
\* the next frame is handled.
C25_DeliveredToAllInOrder ==
  [][(rx' # rx /\ lastMsg'.type = "utf8") =>
       /\ Len(delivered') = Len(listeners)
       /\ \A i \in 1..Len(listeners) : delivered'[i] = listeners[i].id
    ]_vars

\* C26: the step that handles an inbound binary frame logs an error, calls
\* no listener, and leaves the state of the channel and the list of the
\* listeners as they are: the connection the frame came on stays open.
C26_BinaryFrameRejected ==
  [][(rx' # rx /\ lastMsg'.type = "binary") =>
       /\ errorLogged'
       /\ delivered' = <<>>
       /\ UNCHANGED <<wsVars, listeners>>
    ]_vars

\* a binary frame was handled with listeners registered, and the connection
\* is open and the heartbeat timer is active
C26_Witness ==
  /\ lastMsg.type = "binary" /\ errorLogged /\ delivered = <<>>
  /\ listeners # <<>>
  /\ heartbeatInterval
  /\ \E o \in connection(Chan) : o.st = "open"

(***************************************************************************)
(* Claims on the lifetime of the legacy session token                      *)
(***************************************************************************)
\* the step stores the token of a login that one of the requests awaited
LoginStep ==
  /\ sessionToken' \in Tokens
  /\ \E c \in Calls : /\ req[c].pc \in {"preLogin", "reLogin"}
                      /\ req'[c].login = "ok"
                      /\ req'[c].pc = "wire"

\* C27: the expiry changes only in a step that stores the token of a login,
\* and is then the time of that step plus 170 s; a request that is issued
\* uses the stored token without a login exactly if the token is not empty
\* and the clock is at most the expiry, and leaves token and expiry alone.
C27_ValidFor170s ==
  [][/\ expiresOn' # expiresOn =>
          (LoginStep /\ expiresOn' = now + SessionTimeoutMs)
     /\ \A c \in Calls :
          (req[c].pc = "idle" /\ req'[c].pc # "idle") =>
            /\ req'[c].pc = "wire" <=>
                  (sessionToken # NoToken /\ now <= expiresOn)
            /\ req'[c].pc = "wire" => req'[c].tok = sessionToken
            /\ UNCHANGED <<sessionToken, expiresOn>>
    ]_vars

\* a request went on the wire with the stored token, without a login, in
\* the last millisecond of the token's lifetime
C27_Witness ==
  \E c \in Calls :
    /\ req[c].pc = "wire" /\ req[c].login = "none"
    /\ req[c].tok = sessionToken
    /\ now = expiresOn

(***************************************************************************)
(* Claims on the effects of a synchronization cycle                        *)
(***************************************************************************)
\* the step belongs to a synchronization cycle: the status request is
\* issued, is answered, or its answer is passed to the handlers
CycleStep == requested' # requested \/ answered' # answered

C30_DiscoveryStartsFirstSync ==
  [][(/\ phase = "discovering" /\ phase' = "running"
      /\ \E d \in Restored : handlerMap'[d] # NoHandler) =>
       requested' = requested + 1
    ]_vars

(***************************************************************************)
(* Claims on the cache of the light handler                                *)
(***************************************************************************)
\* n is x rounded to the nearest integer, halves upwards (x given in halves)
Rounds(n, h) == 2 * n - 1 <= h /\ h < 2 * n + 1

\* the cycle has applied a snapshot with the outputs of the lamp to its
\* handler
LampApplied == fanout.done /\ "lamp" \in fanout.pushed

\* C31 as stated: when a snapshot with the output 'brightness' of value v
\* and targetValue t has been applied to a light handler, the cached
\* brightness is round(v) and the cached on-state is round(t) > 0.
C31_CacheFollowsSnapshot ==
  LampApplied =>
    LET out == fanout.snap["lamp"].out
        h == handlerMap["lamp"]
    IN /\ Rounds(h.brightness, out.value)
       /\ Rounds(h.targetValue, out.targetValue)

\* C31: when a snapshot with the output 'brightness' of value v and
\* targetValue t has been applied to a light handler, the cached target is
\* round(t), so that the on-state is round(t) > 0, and the cached brightness
\* is round(v) if the handler supports brightness.
C31_CacheFollowsSnapshotIfDimmable ==
  LampApplied =>
    LET out == fanout.snap["lamp"].out
        h == handlerMap["lamp"]
    IN /\ Rounds(h.targetValue, out.targetValue)
       /\ h.hasBrightness => Rounds(h.brightness, out.value)

\* value 42 and targetValue 42 have been applied to a dimmable light:
\* brightness 42, on
C31_Witness ==
  /\ LampApplied
  /\ fanout.snap["lamp"].out.value = 84
  /\ fanout.snap["lamp"].out.targetValue = 84
  /\ handlerMap["lamp"].hasBrightness
  /\ handlerMap["lamp"].brightness = 42
  /\ handlerMap["lamp"].targetValue > 0

(***************************************************************************)
(* Claims on the number of connections and attempts                        *)
(***************************************************************************)
\* C32: at most one connection is established and has the handlers of the
\* channel attached, so that a notification of the server reaches each
\* listener once.
C32_AtMostOneLiveConnection == N(objs, "open") <= 1

\* C33: at most one connection attempt is outstanding, and isConnecting is
\* TRUE exactly while one is.
C33_AtMostOneAttempt ==
  /\ N(objs, "connecting") <= 1
  /\ isConnecting <=> N(objs, "connecting") = 1

\* the step is the 'close' event of a connection that is closing or errored
\* while this.connection is another, open connection
StaleClose ==
  /\ \E o \in connection(Chan) : o.st = "open"
  /\ N(objs', "open") = N(objs, "open")
  /\ N(objs', "closing") + N(objs', "errored")
       < N(objs, "closing") + N(objs, "errored")

\* C34: the 'close' event of a connection that is not this.connection
\* leaves this.connection, isConnecting and the heartbeat timer as they
\* are.
C34_StaleEventIsInert ==
  [][StaleClose =>
       /\ connection([Chan EXCEPT !.objs = objs']) # {}
       /\ isConnecting' = isConnecting
       /\ heartbeatInterval' = heartbeatInterval
    ]_vars

\* C35: once pluginShutdown has called close(), no step starts a connection
\* attempt and no step establishes a connection.
C35_NoAttemptAfterClose ==
  [][shutdown => (~AttemptStarted /\ ~Connected)]_vars

\* C36: while this.connection is null, the retry budget is not used up and
\* the plugin has not been shut down, a connection attempt is outstanding,
\* a reconnect timer is pending, or the 'close' event of a closing or
\* errored connection is still to come: something will call connect().
C36_NeverSilentlyDisconnected ==
  (connection(Chan) = {} /\ retryCount < maxRetries /\ ~shutdown) =>
    \/ N(objs, "connecting") > 0
    \/ timers > 0
    \/ N(objs, "closing") + N(objs, "errored") > 0

\* a failed attempt has left the channel without connection and without
\* attempt, waiting for its reconnect timer
C36_Witness ==
  /\ connection(Chan) = {} /\ retryCount > 0 /\ retryCount < maxRetries
  /\ N(objs, "connecting") = 0
  /\ timers > 0

\* C37: the retry counter is within 0..maxRetries.
C37_RetryCountBounded == retryCount \in 0..maxRetries

\* C38: at most one heartbeat interval timer is active, and a heartbeat
\* timer is active whenever this.connection is set.
C38_OneHeartbeatPerConnection ==
  /\ intervals <= 1
  /\ connection(Chan) # {} => (heartbeatInterval /\ intervals = 1)

\* a second connection has been established while the heartbeat timer of
\* the first was active: one timer is active
C38_Witness ==
  /\ N(objs, "open") + N(objs, "closing") >= 2
  /\ connection(Chan) # {}
  /\ heartbeatInterval /\ intervals = 1

(***************************************************************************)
(* Claims on the start-up without a fingerprint                            *)
(***************************************************************************)
\* C39: with no fingerprint configured and the validation not disabled, the
\* event channel is never created and no discovery, status or command
\* request is issued, whatever the probe for the fingerprint comes to.
C39_NoFingerprintNoStart ==
  (~config.disableCertificateValidation /\ config.fingerprint = <<>>) =>
    (~wsCreated /\ apiRequests = 0)

(***************************************************************************)
(* Claims on the removal of cached accessories                             *)
(***************************************************************************)
\* C40: an accessory restored from the cache is unregistered only by a pass
\* of discoverDevices whose connection test and apartment fetch succeeded
\* and among whose function blocks its device did not appear.
C40_UnregisterOnlyAfterSuccess ==
  \A d \in pass.unregistered :
    /\ pass.outcome = "ok"
    /\ d \in pass.restored
    /\ d \notin pass.devices

====
